---------------------------- MODULE Spec2Model ----------------------------
(***************************************************************************)
(* Model of the internal Q&A chatbot: the retrieval-and-conflict-          *)
(* resolution core of RagEngine (src/rag_engine.py), metadata extraction   *)
(* (DocumentMetadata and PolicyMetaData of src/models.py), ingestion       *)
(* (IngestionPipeline of src/ingestion_pipeline.py) and the command line   *)
(* program (src/main.py).                                                  *)
(*                                                                         *)
(* Five specifications share the variables and the actions of the query:   *)
(* Spec (the engine, with load and ingestion taken by their outcome),      *)
(* FilterSpec (the filter alone), ExtractSpec (DocumentMetadata on one     *)
(* file), IngestSpec (ingestion file by file) and MainSpec (main()         *)
(* driving the engine).                                                    *)
(*                                                                         *)
(* A Python Optional value is modelled as a set with at most one element:  *)
(* None is {} and a present value x is {x}.                                *)
(***************************************************************************)
EXTENDS Integers, Sequences, FiniteSets, TLC

VARIABLES
    indexOnDisk,    \* does CHROMA_PERSIST_DIR exist on disk
    vectorstore,    \* RagEngine.vectorstore: FALSE is None, TRUE is a loaded store
    pc,             \* position of the running or last query() call ("idle":
                    \* none since construction or the last load or ingestion)
    stages,         \* the stages the running query has entered, in order
    documents,      \* retrieve_relevant_context: the retrieved candidates
    result,         \* _filter_documents_by_metadata: the QueryIntent, as an Optional
    relevant_docs,  \* query: the documents left after filtering
    context,        \* query: the context built from relevant_docs
    answer,         \* the PolicyAnswer query() returned, as an Optional
    error,          \* the kind of the exception the last call on the engine
                    \* raised, "" when none
    searchCalls,    \* calls of vectorstore.similarity_search in this query
    intentCalls,    \* calls of generate_content for the intent in this query
    genCalls,       \* calls of generate_content for the answer in this query
    intentFailed,   \* did an intent call of this query raise or fail validation
    genFailed,      \* did an answer call of this query raise or fail validation
    kb,             \* the knowledge base an ingestion or an extraction reads:
                    \* the configured path, the files under it, and what
                    \* ./knowledge_base holds under the same names
    extracted,      \* what DocumentMetadata made of a file, as an Optional
    indexDocs,      \* the documents in CHROMA_PERSIST_DIR where ingestion is
                    \* followed file by file, as an Optional (None: no index)
    ingestPc,       \* "idle" until IngestionPipeline.ingest_documents has run
    args,           \* main(): the parsed command line
    cliPc,          \* main(): its position
    exitCode,       \* the exit status of the process, as an Optional
    raisedIn,       \* main(): the calls that raised so far
    answered,       \* main(): did rag.query return an answer
    loopEntered     \* did run_interactive_mode reach its question loop

\* the state of metadata extraction and of file-by-file ingestion
ingestVars == <<kb, extracted, indexDocs, ingestPc>>

\* the state of the command line program
cliVars == <<args, cliPc, exitCode, raisedIn, answered, loopEntered>>

vars == <<indexOnDisk, vectorstore, pc, stages, documents, result,
          relevant_docs, context, answer, error,
          searchCalls, intentCalls, genCalls, intentFailed, genFailed,
          ingestVars, cliVars>>

-----------------------------------------------------------------------------
(* Bounds of the model *)

\* the longest candidate list handed to the filter when it is checked alone
MaxDocs == 4
\* the k of the similarity search of a modelled query (config default: 10)
SIMILARITY_SEARCH_K == 2
\* years of policy documents range over MinYear..MaxYear
MaxYear == 2
\* versions of policy documents range over 0..MaxVersion
MaxVersion == 1
\* the k that query() hands to retrieve_relevant_context (config default: 5)
RETRIEVAL_TOP_K == 1

(* Program constants *)

\* datetime.MINYEAR: the smallest year a datetime, hence a document, can carry
MinYear == 1
\* QueryIntent.confidence: ge=1, le=5
MinConfidence == 1
MaxConfidence == 5

-----------------------------------------------------------------------------
(* Data *)

DocType == {"policy", "menu", "memo", "general"}

Years == MinYear..MaxYear
Versions == 0..MaxVersion

\* The metadata of a document as ingestion writes it (PolicyMetaData without
\* the effective_date string, which the query path only prints).  Policy
\* documents range over every (year, version); the resolver never reads the
\* year or version of the other documents, which are taken unversioned and
\* dated in the first year.
MetaData ==
    [doc_type : {"policy"}, year : Years, version : Versions]
    \cup [doc_type : DocType \ {"policy"}, year : {MinYear}, version : {0}]

\* A retrieved document; source stands for the filename, one per document.
MakeDoc(src, m) ==
    [source |-> src, doc_type |-> m.doc_type, year |-> m.year, version |-> m.version]

\* The ranked list of k distinct documents with the metadata f[1], ..., f[k].
DocList(k, f) == [i \in 1..k |-> MakeDoc(i, f[i])]

IsPolicy(d) == d.doc_type = "policy"
IsNotPolicy(d) == d.doc_type # "policy"
IsMenu(d) == d.doc_type = "menu"
IsMemo(d) == d.doc_type = "memo"

-----------------------------------------------------------------------------
(* RagEngine._filter_latest_policy *)

\* IsLater with the version compared by >=: a later document with the same
\* (year, version) replaces the one selected
IsLaterOrEqual(year, version, latest_year, latest_version) ==
    (year > latest_year) \/ (year = latest_year /\ version >= latest_version)

\* IsLater with the years compared and the versions not looked at
IsLaterYearOnly(year, version, latest_year, latest_version) ==
    year > latest_year

\* the comparison of the scan: does (year, version) replace the latest so far
IsLater(year, version, latest_year, latest_version) ==
    (year > latest_year) \/ (year = latest_year /\ version > latest_version)

\* the locals of the scan before the loop
ScanInit == [latest_policy |-> {}, latest_year |-> 0, latest_version |-> 0]

\* one iteration of the loop over policy_docs
ScanStep(st, doc) ==
    IF IsLater(doc.year, doc.version, st.latest_year, st.latest_version)
    THEN [latest_policy |-> {doc}, latest_year |-> doc.year,
          latest_version |-> doc.version]
    ELSE st

\* the loop, from position i on
RECURSIVE ScanPolicies(_, _, _)
ScanPolicies(policy_docs, i, st) ==
    IF i > Len(policy_docs)
    THEN st
    ELSE ScanPolicies(policy_docs, i + 1, ScanStep(st, policy_docs[i]))

\* LatestResult with the whole input appended instead of other_docs
LatestResultKeepsAll(latest_policy, other_docs, docs) ==
    IF latest_policy # {}
    THEN <<CHOOSE d \in latest_policy : TRUE>> \o docs
    ELSE docs

\* LatestResult with the selected policy appended after other_docs
LatestResultWinnerLast(latest_policy, other_docs, docs) ==
    IF latest_policy # {}
    THEN other_docs \o <<CHOOSE d \in latest_policy : TRUE>>
    ELSE docs

\* the result list of the multi-policy case
LatestResult(latest_policy, other_docs, docs) ==
    IF latest_policy # {}
    THEN <<CHOOSE d \in latest_policy : TRUE>> \o other_docs
    ELSE docs

\* FilterLatestPolicy with the early return taken only without any policy
FilterLatestPolicyOffByOne(docs) ==
    IF docs = <<>>
    THEN <<>>
    ELSE LET policy_docs == SelectSeq(docs, IsPolicy)
             other_docs == SelectSeq(docs, IsNotPolicy)
         IN  IF Len(policy_docs) < 1
             THEN docs
             ELSE LatestResult(ScanPolicies(policy_docs, 1, ScanInit).latest_policy,
                               other_docs, docs)

FilterLatestPolicy(docs) ==
    IF docs = <<>>
    THEN <<>>
    ELSE LET policy_docs == SelectSeq(docs, IsPolicy)
             other_docs == SelectSeq(docs, IsNotPolicy)
         IN  IF Len(policy_docs) <= 1
             THEN docs
             ELSE LatestResult(ScanPolicies(policy_docs, 1, ScanInit).latest_policy,
                               other_docs, docs)

-----------------------------------------------------------------------------
(* RagEngine._filter_documents_by_metadata, after the intent is known *)

\* FilterDocumentsByMetadata with the memo branch testing for 'menu'
FilterDocumentsMemoAsMenu(docs, intent) ==
    IF intent = "menu" THEN SelectSeq(docs, IsMenu)
    ELSE IF intent = "memo" THEN SelectSeq(docs, IsMenu)
    ELSE IF intent = "policy" THEN FilterLatestPolicy(SelectSeq(docs, IsPolicy))
    ELSE FilterLatestPolicy(docs)

\* FilterDocumentsByMetadata with the policy branch passing every candidate
FilterDocumentsPolicyUnfiltered(docs, intent) ==
    IF intent = "menu" THEN SelectSeq(docs, IsMenu)
    ELSE IF intent = "memo" THEN SelectSeq(docs, IsMemo)
    ELSE IF intent = "policy" THEN FilterLatestPolicy(docs)
    ELSE FilterLatestPolicy(docs)

FilterDocumentsByMetadata(docs, intent) ==
    IF intent = "menu" THEN SelectSeq(docs, IsMenu)
    ELSE IF intent = "memo" THEN SelectSeq(docs, IsMemo)
    ELSE IF intent = "policy" THEN FilterLatestPolicy(SelectSeq(docs, IsPolicy))
    ELSE FilterLatestPolicy(docs)

-----------------------------------------------------------------------------
(* RagEngine._classify_query_intent *)

\* What the intent call can come back with: the call raises, or it returns a
\* text that model_validate_json parses to an intent and a confidence, either
\* of which may be outside the QueryIntent schema.
IntentResponses ==
    {[raised |-> TRUE, intent |-> "general", confidence |-> MinConfidence]}
    \cup [raised : {FALSE}, intent : DocType \cup {"other"},
          confidence : (MinConfidence - 1)..(MaxConfidence + 1)]

\* QueryIntent.model_validate_json: intent is a DocType, confidence ge=1, le=5
ValidQueryIntent(resp) ==
    /\ resp.intent \in DocType
    /\ resp.confidence >= MinConfidence
    /\ resp.confidence <= MaxConfidence

\* the QueryIntent of the except branch
FailedIntent ==
    [intent |-> "general", reasoning |-> "Failed to classify", confidence |-> 1]

\* ClassifyResult with the response text taken without validation
ClassifyResultUnvalidated(resp) ==
    IF ~resp.raised
    THEN [intent |-> resp.intent, reasoning |-> "classified",
          confidence |-> resp.confidence]
    ELSE FailedIntent

\* the value _classify_query_intent returns for a response
ClassifyResult(resp) ==
    IF ~resp.raised /\ ValidQueryIntent(resp)
    THEN [intent |-> resp.intent, reasoning |-> "classified",
          confidence |-> resp.confidence]
    ELSE FailedIntent

-----------------------------------------------------------------------------
(* RagEngine._build_context, RagEngine._generate_answer, RagEngine.query *)

\* the context: one block per document, in order, carrying its metadata
BuildContextOf(docs) ==
    [i \in 1..Len(docs) |->
        [source |-> docs[i].source, doc_type |-> docs[i].doc_type,
         year |-> docs[i].year, version |-> docs[i].version]]

\* the PolicyAnswer of the no-documents branch of query()
NoDocsAnswer ==
    [answer |-> "No relevant documents found to answer your question.",
     reasoning |-> "No documents matched the query",
     cited_sources |-> {<<>>},
     policy_allows_remote |-> {}]

\* the sources named in a context, in order
SourcesOf(ctx) == [i \in 1..Len(ctx) |-> ctx[i].source]

\* The PolicyAnswers the schema admits for a context: cited_sources and
\* policy_allows_remote are Optional.
PolicyAnswers(ctx) ==
    [answer : {"generated"}, reasoning : {"generated"},
     cited_sources : {{}, {<<>>}, {SourcesOf(ctx)}},
     policy_allows_remote : {{}, {TRUE}, {FALSE}}]

\* AfterFilter without the test for an empty list
AfterFilterNoTest(docs) == "CONTEXT_BUILDING"

\* where query() goes once retrieve_relevant_context has returned
AfterFilter(docs) ==
    IF docs = <<>> THEN "EMPTY_ANSWER" ELSE "CONTEXT_BUILDING"

-----------------------------------------------------------------------------
(* Files of the knowledge base (src/ingestion_pipeline.py) *)

\* A filename is the sequence of its parts between underscores, before the
\* ".txt" that the glob of ingest_documents requires: "handbook_v3_2022.txt"
\* is <<Word("handbook"), VersionTag(3), Digits4(2022)>>.
Word(w) == [kind |-> "word", text |-> w, num |-> 0]
\* the part "v<n>"
VersionTag(n) == [kind |-> "v", text |-> "", num |-> n]
\* a part of exactly four digits that read n
Digits4(n) == [kind |-> "digits4", text |-> "", num |-> n]

Words == {"policy", "Menu", "cafeteria", "memorandum", "handbook"}
VersionNumbers == {3}
YearDigits == {0, 2022}

Parts ==
    {Word(w) : w \in Words} \cup {VersionTag(n) : n \in VersionNumbers}
    \cup {Digits4(n) : n \in YearDigits}

\* a datetime
DateTime(y, m, d, hh, mm, ss) ==
    [year |-> y, month |-> m, day |-> d, hour |-> hh, minute |-> mm, second |-> ss]

\* os.path.getmtime of the files of the knowledge base, and of the files that
\* ./knowledge_base holds under the same names when the configured path is
\* another directory
FileMtime == DateTime(2020, 6, 15, 9, 30, 0)
StrayMtime == DateTime(2019, 2, 2, 8, 0, 0)

\* What re.search finds in a content for each of the two date patterns of
\* _extract_date, as an Optional: the first text that matches the pattern.
MonthTexts == {"Jan 15, 2023", "January 15, 2023"}
IsoTexts == {"2021-03-01", "2021-13-01"}

Contents ==
    [month : {{}} \cup {{t} : t \in MonthTexts},
     iso : {{}} \cup {{t} : t \in IsoTexts}]

NoDates == [month |-> {}, iso |-> {}]

\* A file under the configured path: readable says whether open() and read()
\* succeed on it.
MakeFile(filename, content, readable) ==
    [filename |-> filename, content |-> content, readable |-> readable,
     mtime |-> FileMtime]

\* Config.KNOWLEDGE_BASE_PATH: the default and another directory
DefaultKbPath == "knowledge_base"
KbPaths == {DefaultKbPath, "docs"}

\* The knowledge base as ingestion finds it.  stray is the modification time
\* of the files ./knowledge_base holds under the names of the files of the
\* configured directory: None when it holds no such file.
MakeKb(path, exists, files, stray) ==
    [path |-> path, exists |-> exists, files |-> files, stray |-> stray]

\* ./knowledge_base is the configured directory itself, or a directory
\* without the files, or one with files of the same names
Strays(path) == IF path = DefaultKbPath THEN {{}} ELSE {{}, {StrayMtime}}

-----------------------------------------------------------------------------
(* DocumentMetadata (src/models.py) *)

\* the keywords of _classify_doc_type that the lower-cased word contains
KeywordsIn(w) ==
    CASE w = "policy" -> {"policy"}
      [] w = "Menu" -> {"menu"}
      [] w = "cafeteria" -> {"cafeteria"}
      [] w = "memorandum" -> {"memo"}
      [] OTHER -> {}

\* 'kw' in filename.lower()
InFilename(kw, filename) ==
    \E i \in 1..Len(filename) :
        filename[i].kind = "word" /\ kw \in KeywordsIn(filename[i].text)

\* _classify_doc_type
ClassifyDocType(filename) ==
    IF InFilename("policy", filename) THEN "policy"
    ELSE IF InFilename("menu", filename) \/ InFilename("cafeteria", filename)
         THEN "menu"
    ELSE IF InFilename("memo", filename) THEN "memo"
    ELSE "general"

\* re.search(r'_(\d{4})\.txt', filename) with int() of its group, as an
\* Optional: four digits between an underscore and ".txt"
YearMatch(filename) ==
    LET n == Len(filename)
    IN  IF n >= 2 /\ filename[n].kind = "digits4" THEN {filename[n].num} ELSE {}

\* re.search(r'_v(\d+)_', filename) with int() of its group, as an Optional:
\* the first "v<n>" that has an underscore on both sides
VersionMatch(filename) ==
    LET at == {i \in 2..(Len(filename) - 1) : filename[i].kind = "v"}
    IN  IF at = {} THEN {}
        ELSE {filename[CHOOSE i \in at : \A j \in at : i <= j].num}

\* _extract_version_info
ExtractVersionInfo(filename) ==
    IF VersionMatch(filename) # {}
    THEN CHOOSE n \in VersionMatch(filename) : TRUE
    ELSE 0

\* datetime(year, month, day), as an Optional: None when it raises ValueError
Datetime(y, m, d) ==
    IF y >= MinYear /\ m \in 1..12 /\ d \in 1..31
    THEN {DateTime(y, m, d, 0, 0, 0)}
    ELSE {}

\* datetime.strptime(text, "%b %d, %Y"), as an Optional: %b takes the
\* abbreviated month names only
StrptimeMonth(text) ==
    CASE text = "Jan 15, 2023" -> Datetime(2023, 1, 15)
      [] OTHER -> {}

\* datetime.strptime(text, "%Y-%m-%d"), as an Optional
StrptimeIso(text) ==
    CASE text = "2021-03-01" -> Datetime(2021, 3, 1)
      [] text = "2021-13-01" -> Datetime(2021, 13, 1)
      [] OTHER -> {}

\* the loop of _extract_date over date_patterns: the date of the first pattern
\* whose match parses, as an Optional
ContentDate(content) ==
    LET first == UNION {StrptimeMonth(t) : t \in content.month}
        second == UNION {StrptimeIso(t) : t \in content.iso}
    IN  IF first # {} THEN first ELSE second

\* os.path.getmtime(Path("knowledge_base", filename)), as an Optional: None
\* when it raises FileNotFoundError
GetMtime(base, file) ==
    IF base.path = DefaultKbPath THEN {file.mtime} ELSE base.stray

\* _extract_date: the exception it raises ("" when none) and the datetime it
\* returns
ExtractDate(base, file) ==
    IF YearMatch(file.filename) # {}
    THEN LET year == CHOOSE n \in YearMatch(file.filename) : TRUE
         IN  IF Datetime(year, 1, 1) = {}
             THEN [raised |-> "ValueError", date |-> {}]
             ELSE [raised |-> "", date |-> Datetime(year, 1, 1)]
    ELSE IF ContentDate(file.content) # {}
         THEN [raised |-> "", date |-> ContentDate(file.content)]
    ELSE IF GetMtime(base, file) = {}
         THEN [raised |-> "FileNotFoundError", date |-> {}]
    ELSE [raised |-> "", date |-> GetMtime(base, file)]

DigitChars == <<"0", "1", "2", "3", "4", "5", "6", "7", "8", "9">>

\* n in w digits, zero-padded
Pad(n, w) == [i \in 1..w |-> DigitChars[((n \div (10 ^ (w - i))) % 10) + 1]]

\* datetime.isoformat(): "YYYY-MM-DDTHH:MM:SS"
IsoFormat(dt) ==
    Pad(dt.year, 4) \o <<"-">> \o Pad(dt.month, 2) \o <<"-">> \o Pad(dt.day, 2)
    \o <<"T">> \o Pad(dt.hour, 2) \o <<":">> \o Pad(dt.minute, 2)
    \o <<":">> \o Pad(dt.second, 2)

IsDigits(s) == \A i \in 1..Len(s) : \E d \in 1..10 : DigitChars[d] = s[i]

DigitValue(c) == (CHOOSE d \in 1..10 : DigitChars[d] = c) - 1

\* int() of a string of digits
RECURSIVE IntOf(_)
IntOf(s) ==
    IF s = <<>> THEN 0
    ELSE 10 * IntOf(SubSeq(s, 1, Len(s) - 1)) + DigitValue(s[Len(s)])

\* datetime.fromisoformat on a string of the length isoformat() gives, as an
\* Optional: None when it raises ValueError
FromIsoFormat(s) ==
    IF /\ Len(s) = 19
       /\ s[5] = "-" /\ s[8] = "-" /\ s[11] = "T" /\ s[14] = ":" /\ s[17] = ":"
       /\ IsDigits(SubSeq(s, 1, 4)) /\ IsDigits(SubSeq(s, 6, 7))
       /\ IsDigits(SubSeq(s, 9, 10)) /\ IsDigits(SubSeq(s, 12, 13))
       /\ IsDigits(SubSeq(s, 15, 16)) /\ IsDigits(SubSeq(s, 18, 19))
       /\ Datetime(IntOf(SubSeq(s, 1, 4)), IntOf(SubSeq(s, 6, 7)),
                   IntOf(SubSeq(s, 9, 10))) # {}
    THEN {DateTime(IntOf(SubSeq(s, 1, 4)), IntOf(SubSeq(s, 6, 7)),
                   IntOf(SubSeq(s, 9, 10)), IntOf(SubSeq(s, 12, 13)),
                   IntOf(SubSeq(s, 15, 16)), IntOf(SubSeq(s, 18, 19)))}
    ELSE {}

\* PolicyMetaData: the validation of the fields
ValidPolicyMetaData(m) ==
    /\ m.doc_type \in DocType
    /\ FromIsoFormat(m.effective_date) # {}
    /\ m.version \in Int
    /\ m.year \in Int

\* ToPydantic with the version and the year taken for each other
ToPydanticSwapped(filename, docType, effective_date, version) ==
    [source |-> filename, doc_type |-> docType,
     effective_date |-> IsoFormat(effective_date),
     version |-> effective_date.year, year |-> version]

\* _to_pydantic, before validation
ToPydantic(filename, docType, effective_date, version) ==
    [source |-> filename, doc_type |-> docType,
     effective_date |-> IsoFormat(effective_date),
     version |-> version, year |-> effective_date.year]

\* DocumentMetadata(filename, content) followed by _to_langchain_document:
\* the exception raised ("" when none) and the Document, as an Optional
ExtractDocument(base, file) ==
    LET docType == ClassifyDocType(file.filename)
        extraction == ExtractDate(base, file)
        version == ExtractVersionInfo(file.filename)
    IN  IF extraction.raised # ""
        THEN [raised |-> extraction.raised, document |-> {}]
        ELSE LET meta == ToPydantic(file.filename, docType,
                             CHOOSE dt \in extraction.date : TRUE, version)
             IN  IF ValidPolicyMetaData(meta)
                 THEN [raised |-> "",
                       document |-> {[page_content |-> file.content,
                                      metadata |-> meta]}]
                 ELSE [raised |-> "ValidationError", document |-> {}]

-----------------------------------------------------------------------------
(* State machine *)

NotRunning == pc \in {"idle", "DONE", "FAILED"}

\* RagEngine.__init__: no store is loaded and no query has run
EngineInit ==
    /\ vectorstore = FALSE
    /\ pc = "idle"
    /\ stages = <<>>
    /\ documents = <<>>
    /\ result = {}
    /\ relevant_docs = <<>>
    /\ context = <<>>
    /\ answer = {}
    /\ error = ""
    /\ searchCalls = 0
    /\ intentCalls = 0
    /\ genCalls = 0
    /\ intentFailed = FALSE
    /\ genFailed = FALSE

\* no knowledge base is being followed file by file
NoIngestion ==
    /\ kb = MakeKb(DefaultKbPath, FALSE, <<>>, {})
    /\ extracted = {}
    /\ indexDocs = {}
    /\ ingestPc = "idle"

\* the engine is not driven by main()
NoMain ==
    /\ args = [ingest |-> FALSE, interactive |-> FALSE, question |-> FALSE]
    /\ cliPc = "none"
    /\ exitCode = {}
    /\ raisedIn = {}
    /\ answered = FALSE
    /\ loopEntered = FALSE

Init ==
    /\ indexOnDisk \in BOOLEAN
    /\ EngineInit
    /\ NoIngestion
    /\ NoMain

\* a call other than query(): what the last query left is gone
NoQuery ==
    /\ pc' = "idle"
    /\ stages' = <<>>
    /\ documents' = <<>>
    /\ result' = {}
    /\ relevant_docs' = <<>>
    /\ context' = <<>>
    /\ answer' = {}
    /\ searchCalls' = 0
    /\ intentCalls' = 0
    /\ genCalls' = 0
    /\ intentFailed' = FALSE
    /\ genFailed' = FALSE

\* RagEngine.load_vectorstore with IngestionPipeline.load_existing_vectorstore
LoadVectorstoreCall ==
    /\ IF ~indexOnDisk
       THEN /\ error' = "FileNotFoundError"
            /\ UNCHANGED vectorstore
       ELSE \/ /\ error' = "LoadError"
               /\ UNCHANGED vectorstore
            \/ /\ error' = ""
               /\ vectorstore' = TRUE
    /\ UNCHANGED indexOnDisk
    /\ NoQuery

\* load_vectorstore called on an engine that runs no query
LoadVectorstore ==
    /\ NotRunning
    /\ LoadVectorstoreCall
    /\ UNCHANGED <<ingestVars, cliVars>>

\* RagEngine.ingest_documents with IngestionPipeline.ingest_documents: the
\* existing index is removed first, then the knowledge base decides the outcome
IngestDocumentsCall ==
    /\ \E outcome \in {"kb_missing", "no_txt", "none_processed", "store_failed", "ok"} :
         CASE outcome \in {"kb_missing", "no_txt"} ->
                /\ indexOnDisk' = FALSE
                /\ error' = "FileNotFoundError"
                /\ UNCHANGED vectorstore
           [] outcome = "none_processed" ->
                /\ indexOnDisk' = FALSE
                /\ error' = "ValueError"
                /\ UNCHANGED vectorstore
           [] outcome = "store_failed" ->
                /\ indexOnDisk' \in BOOLEAN
                /\ error' = "StoreError"
                /\ UNCHANGED vectorstore
           [] outcome = "ok" ->
                /\ indexOnDisk' = TRUE
                /\ error' = ""
                /\ vectorstore' = TRUE
    /\ NoQuery

\* ingest_documents called on an engine that runs no query
IngestDocuments ==
    /\ NotRunning
    /\ IngestDocumentsCall
    /\ UNCHANGED <<ingestVars, cliVars>>

\* query(): entry, up to the call of retrieve_relevant_context
QueryCall ==
    /\ pc' = "RETRIEVING"
    /\ stages' = <<"RETRIEVING">>
    /\ documents' = <<>>
    /\ result' = {}
    /\ relevant_docs' = <<>>
    /\ context' = <<>>
    /\ answer' = {}
    /\ error' = ""
    /\ searchCalls' = 0
    /\ intentCalls' = 0
    /\ genCalls' = 0
    /\ intentFailed' = FALSE
    /\ genFailed' = FALSE
    /\ UNCHANGED <<indexOnDisk, vectorstore>>

\* query() called on an engine that runs no query
Query ==
    /\ NotRunning
    /\ QueryCall
    /\ UNCHANGED <<ingestVars, cliVars>>

\* RetrieveDocuments with an empty candidate list in place of the ValueError
\* when no store is loaded
RetrieveDocumentsSwallows ==
    /\ pc = "RETRIEVING"
    /\ IF ~vectorstore
       THEN /\ documents' = <<>>
            /\ pc' = "CLASSIFYING"
            /\ stages' = Append(stages, "CLASSIFYING")
            /\ UNCHANGED <<error, searchCalls>>
       ELSE /\ searchCalls' = searchCalls + 1
            /\ \/ /\ pc' = "FAILED"
                  /\ error' = "RetrievalError"
                  /\ UNCHANGED <<stages, documents>>
               \/ \E k \in 0..SIMILARITY_SEARCH_K : \E f \in [1..k -> MetaData] :
                     /\ documents' = DocList(k, f)
                     /\ pc' = "CLASSIFYING"
                     /\ stages' = Append(stages, "CLASSIFYING")
                     /\ UNCHANGED error
    /\ UNCHANGED <<indexOnDisk, vectorstore, result, relevant_docs, context,
                   answer, intentCalls, genCalls, intentFailed, genFailed>>
    /\ UNCHANGED <<ingestVars, cliVars>>

\* RetrieveDocuments with the store dropped when the search raises
RetrieveDocumentsDropsStore ==
    /\ pc = "RETRIEVING"
    /\ IF ~vectorstore
       THEN /\ pc' = "FAILED"
            /\ error' = "ValueError"
            /\ UNCHANGED <<stages, documents, searchCalls, vectorstore>>
       ELSE /\ searchCalls' = searchCalls + 1
            /\ \/ /\ pc' = "FAILED"
                  /\ error' = "RetrievalError"
                  /\ vectorstore' = FALSE
                  /\ UNCHANGED <<stages, documents>>
               \/ \E k \in 0..SIMILARITY_SEARCH_K : \E f \in [1..k -> MetaData] :
                     /\ documents' = DocList(k, f)
                     /\ pc' = "CLASSIFYING"
                     /\ stages' = Append(stages, "CLASSIFYING")
                     /\ UNCHANGED <<error, vectorstore>>
    /\ UNCHANGED <<indexOnDisk, result, relevant_docs, context,
                   answer, intentCalls, genCalls, intentFailed, genFailed>>
    /\ UNCHANGED <<ingestVars, cliVars>>

\* _retrieve_documents
RetrieveDocuments ==
    /\ pc = "RETRIEVING"
    /\ IF ~vectorstore
       THEN /\ pc' = "FAILED"
            /\ error' = "ValueError"
            /\ UNCHANGED <<stages, documents, searchCalls>>
       ELSE /\ searchCalls' = searchCalls + 1
            /\ \/ /\ pc' = "FAILED"
                  /\ error' = "RetrievalError"
                  /\ UNCHANGED <<stages, documents>>
               \/ \E k \in 0..SIMILARITY_SEARCH_K : \E f \in [1..k -> MetaData] :
                     /\ documents' = DocList(k, f)
                     /\ pc' = "CLASSIFYING"
                     /\ stages' = Append(stages, "CLASSIFYING")
                     /\ UNCHANGED error
    /\ UNCHANGED <<indexOnDisk, vectorstore, result, relevant_docs, context,
                   answer, intentCalls, genCalls, intentFailed, genFailed>>
    /\ UNCHANGED <<ingestVars, cliVars>>

\* _classify_query_intent, called first thing by _filter_documents_by_metadata
ClassifyQueryIntent ==
    /\ pc = "CLASSIFYING"
    /\ intentCalls' = intentCalls + 1
    /\ \E resp \in IntentResponses :
          /\ result' = {ClassifyResult(resp)}
          /\ intentFailed' = (resp.raised \/ ~ValidQueryIntent(resp))
    /\ pc' = "FILTERING"
    /\ stages' = Append(stages, "FILTERING")
    /\ UNCHANGED <<indexOnDisk, vectorstore, documents, relevant_docs, context,
                   answer, error, searchCalls, genCalls, genFailed>>
    /\ UNCHANGED <<ingestVars, cliVars>>

\* FilterDocuments with the intent classified once more before filtering
FilterDocumentsReclassifies ==
    /\ pc = "FILTERING"
    /\ intentCalls' = intentCalls + 1
    /\ \E r \in result :
         relevant_docs' = FilterDocumentsByMetadata(documents, r.intent)
    /\ pc' = AfterFilter(relevant_docs')
    /\ stages' = Append(stages, pc')
    /\ UNCHANGED <<indexOnDisk, vectorstore, documents, result, context,
                   answer, error, searchCalls, genCalls,
                   intentFailed, genFailed>>
    /\ UNCHANGED <<ingestVars, cliVars>>

\* the rest of _filter_documents_by_metadata, and the test of query() on
\* what retrieve_relevant_context returned
FilterDocuments ==
    /\ pc = "FILTERING"
    /\ \E r \in result :
         relevant_docs' = FilterDocumentsByMetadata(documents, r.intent)
    /\ pc' = AfterFilter(relevant_docs')
    /\ stages' = Append(stages, pc')
    /\ UNCHANGED <<indexOnDisk, vectorstore, documents, result, context,
                   answer, error, searchCalls, intentCalls, genCalls,
                   intentFailed, genFailed>>
    /\ UNCHANGED <<ingestVars, cliVars>>

\* query(): the no-documents branch
EmptyAnswer ==
    /\ pc = "EMPTY_ANSWER"
    /\ answer' = {NoDocsAnswer}
    /\ pc' = "DONE"
    /\ stages' = Append(stages, "DONE")
    /\ UNCHANGED <<indexOnDisk, vectorstore, documents, result, relevant_docs,
                   context, error, searchCalls, intentCalls, genCalls,
                   intentFailed, genFailed>>
    /\ UNCHANGED <<ingestVars, cliVars>>

\* _build_context
BuildContext ==
    /\ pc = "CONTEXT_BUILDING"
    /\ context' = BuildContextOf(relevant_docs)
    /\ pc' = "GENERATING"
    /\ stages' = Append(stages, "GENERATING")
    /\ UNCHANGED <<indexOnDisk, vectorstore, documents, result, relevant_docs,
                   answer, error, searchCalls, intentCalls, genCalls,
                   intentFailed, genFailed>>
    /\ UNCHANGED <<ingestVars, cliVars>>

\* GenerateAnswer with the exception swallowed and a default answer returned,
\* after the call was tried a second time
GenerateAnswerSwallows ==
    /\ pc = "GENERATING"
    /\ genCalls' = genCalls + 1
    /\ \/ /\ genFailed' = TRUE
          /\ IF genCalls = 0
             THEN UNCHANGED <<pc, stages, answer>>
             ELSE /\ answer' = {[NoDocsAnswer EXCEPT !.answer = "default"]}
                  /\ pc' = "DONE"
                  /\ stages' = Append(stages, "DONE")
          /\ UNCHANGED error
       \/ \E a \in PolicyAnswers(context) :
             /\ answer' = {a}
             /\ pc' = "DONE"
             /\ stages' = Append(stages, "DONE")
             /\ UNCHANGED <<error, genFailed>>
    /\ UNCHANGED <<indexOnDisk, vectorstore, documents, result, relevant_docs,
                   context, searchCalls, intentCalls, intentFailed>>
    /\ UNCHANGED <<ingestVars, cliVars>>

\* _generate_answer and the return of query(): the call raises or its text
\* fails validation, and the exception is raised again; or a PolicyAnswer
GenerateAnswer ==
    /\ pc = "GENERATING"
    /\ genCalls' = genCalls + 1
    /\ \/ /\ genFailed' = TRUE
          /\ pc' = "FAILED"
          /\ error' = "GenerationError"
          /\ UNCHANGED <<stages, answer>>
       \/ \E a \in PolicyAnswers(context) :
             /\ answer' = {a}
             /\ pc' = "DONE"
             /\ stages' = Append(stages, "DONE")
             /\ UNCHANGED <<error, genFailed>>
    /\ UNCHANGED <<indexOnDisk, vectorstore, documents, result, relevant_docs,
                   context, searchCalls, intentCalls, intentFailed>>
    /\ UNCHANGED <<ingestVars, cliVars>>

Next ==
    \/ LoadVectorstore
    \/ IngestDocuments
    \/ Query
    \/ RetrieveDocuments
    \/ ClassifyQueryIntent
    \/ FilterDocuments
    \/ EmptyAnswer
    \/ BuildContext
    \/ GenerateAnswer

Spec == Init /\ [][Next]_vars

\* The filter alone: a query at the point where the candidates are retrieved
\* and the intent is classified, over longer candidate lists.
InitFilter ==
    /\ indexOnDisk = TRUE
    /\ vectorstore = TRUE
    /\ pc = "FILTERING"
    /\ stages = <<"RETRIEVING", "CLASSIFYING", "FILTERING">>
    /\ \E k \in 0..MaxDocs : \E f \in [1..k -> MetaData] :
          documents = DocList(k, f)
    /\ \E resp \in {r \in IntentResponses :
                        ValidQueryIntent(r) /\ r.confidence = MaxConfidence} :
          /\ result = {ClassifyResult(resp)}
          /\ intentFailed = (resp.raised \/ ~ValidQueryIntent(resp))
    /\ relevant_docs = <<>>
    /\ context = <<>>
    /\ answer = {}
    /\ error = ""
    /\ searchCalls = 1
    /\ intentCalls = 1
    /\ genCalls = 0
    /\ genFailed = FALSE
    /\ NoIngestion
    /\ NoMain

NextFilter == FilterDocuments

FilterSpec == InitFilter /\ [][NextFilter]_vars

-----------------------------------------------------------------------------
(* Metadata extraction alone: DocumentMetadata applied to one file *)

\* the longest filename, in parts
MaxParts == 3

\* one readable file under either configured path
InitExtract ==
    /\ indexOnDisk = FALSE
    /\ EngineInit
    /\ NoMain
    /\ \E path \in KbPaths : \E stray \in Strays(path) :
         \E n \in 1..MaxParts : \E f \in [1..n -> Parts] : \E c \in Contents :
            kb = MakeKb(path, TRUE, <<MakeFile(f, c, TRUE)>>, stray)
    /\ extracted = {}
    /\ indexDocs = {}
    /\ ingestPc = "idle"

\* the body of the loop of ingest_documents for a file that was read
ExtractMetadata ==
    /\ extracted = {}
    /\ extracted' = {ExtractDocument(kb, kb.files[1])}
    /\ UNCHANGED <<indexOnDisk, vectorstore, pc, stages, documents, result,
                   relevant_docs, context, answer, error, searchCalls,
                   intentCalls, genCalls, intentFailed, genFailed,
                   kb, indexDocs, ingestPc, cliVars>>

NextExtract == ExtractMetadata

ExtractSpec == InitExtract /\ [][NextExtract]_vars

-----------------------------------------------------------------------------
(* Ingestion followed file by file: IngestionPipeline.ingest_documents *)

\* the most files under the configured path
MaxFiles == 2

\* policy_v3_2022.txt, memorandum.txt with a date line, handbook.txt without
\* any date, cafeteria_0000.txt, and a Menu.txt that cannot be read
SampleFiles ==
    {MakeFile(<<Word("policy"), VersionTag(3), Digits4(2022)>>, NoDates, TRUE),
     MakeFile(<<Word("memorandum")>>,
              [month |-> {"Jan 15, 2023"}, iso |-> {}], TRUE),
     MakeFile(<<Word("handbook")>>, NoDates, TRUE),
     MakeFile(<<Word("cafeteria"), Digits4(0)>>, NoDates, TRUE),
     MakeFile(<<Word("Menu")>>, NoDates, FALSE)}

\* the index an earlier ingestion left
OldIndex ==
    <<[page_content |-> NoDates,
       metadata |-> ToPydantic(<<Word("policy"), Digits4(2022)>>, "policy",
                               DateTime(2022, 1, 1, 0, 0, 0), 0)]>>

\* the try block of the loop: the Document of a file, as an Optional (None
\* when reading or extraction raised and the file is skipped)
ProcessFile(base, file) ==
    IF ~file.readable THEN {} ELSE ExtractDocument(base, file).document

\* ProcessFiles with the loop left at the first file that fails
RECURSIVE ProcessFilesStopsAtFailure(_, _)
ProcessFilesStopsAtFailure(base, files) ==
    IF files = <<>> THEN <<>>
    ELSE LET d == ProcessFile(base, Head(files))
         IN  IF d = {} THEN <<>>
             ELSE <<CHOOSE x \in d : TRUE>>
                  \o ProcessFilesStopsAtFailure(base, Tail(files))

\* the loop over the files: all_documents
RECURSIVE ProcessFiles(_, _)
ProcessFiles(base, files) ==
    IF files = <<>> THEN <<>>
    ELSE LET d == ProcessFile(base, Head(files))
         IN  (IF d = {} THEN <<>> ELSE <<CHOOSE x \in d : TRUE>>)
             \o ProcessFiles(base, Tail(files))

\* a knowledge base that may be missing or empty, and an index that an
\* earlier ingestion may have left
InitIngest ==
    /\ EngineInit
    /\ NoMain
    /\ \E path \in KbPaths : \E stray \in Strays(path) :
         \/ kb = MakeKb(path, FALSE, <<>>, stray)
         \/ \E n \in 0..MaxFiles : \E f \in [1..n -> SampleFiles] :
               /\ \A i, j \in 1..n : f[i] = f[j] => i = j
               /\ kb = MakeKb(path, TRUE, f, stray)
    /\ extracted = {}
    /\ indexDocs \in {{}, {OldIndex}}
    /\ indexOnDisk = (indexDocs # {})
    /\ ingestPc = "idle"

\* RagEngine.ingest_documents with IngestionPipeline.ingest_documents, file
\* by file: the index directory is removed, then the knowledge base is
\* looked at, and Chroma.from_documents writes the new index or raises
PipelineIngestDocuments ==
    /\ ingestPc = "idle"
    /\ ingestPc' = "done"
    /\ LET all_documents == ProcessFiles(kb, kb.files)
       IN  IF ~kb.exists \/ kb.files = <<>>
           THEN /\ indexDocs' = {}
                /\ indexOnDisk' = FALSE
                /\ error' = "FileNotFoundError"
                /\ UNCHANGED vectorstore
           ELSE IF all_documents = <<>>
           THEN /\ indexDocs' = {}
                /\ indexOnDisk' = FALSE
                /\ error' = "ValueError"
                /\ UNCHANGED vectorstore
           ELSE \/ /\ indexDocs' = {all_documents}
                   /\ indexOnDisk' = TRUE
                   /\ error' = ""
                   /\ vectorstore' = TRUE
                \/ /\ \E j \in 0..(Len(all_documents) - 1) :
                        indexDocs' = IF j = 0 THEN {}
                                     ELSE {SubSeq(all_documents, 1, j)}
                   /\ indexOnDisk' = (indexDocs' # {})
                   /\ error' = "StoreError"
                   /\ UNCHANGED vectorstore
    /\ NoQuery
    /\ UNCHANGED <<kb, extracted, cliVars>>

NextIngest == PipelineIngestDocuments

IngestSpec == InitIngest /\ [][NextIngest]_vars

-----------------------------------------------------------------------------
(* The command line program: main() of src/main.py driving the engine *)

\* the parameters of run_interactive_mode
RunInteractiveModeParams == {"rag"}

\* does a call with these keyword arguments bind to these parameters
\* (otherwise Python raises TypeError)
Binds(params, keywords) == keywords \subseteq params

\* print_answer: ', '.join(answer.cited_sources) raises TypeError on None, in
\* the compact and in the full layout
PrintAnswerRaises(a) == a.cited_sources = {}

InitMain ==
    /\ indexOnDisk \in BOOLEAN
    /\ EngineInit
    /\ NoIngestion
    /\ args \in [ingest : BOOLEAN, interactive : BOOLEAN, question : BOOLEAN]
    /\ cliPc = "start"
    /\ exitCode = {}
    /\ raisedIn = {}
    /\ answered = FALSE
    /\ loopEntered = FALSE

\* sys.exit(code), or the return of main() for code 0
Exit(code) ==
    /\ cliPc' = "exited"
    /\ exitCode' = {code}

\* main(): the arguments are parsed and has_action is tested
MainStart ==
    /\ cliPc = "start"
    /\ IF ~(args.ingest \/ args.interactive \/ args.question)
       THEN Exit(1)
       ELSE /\ cliPc' = "init"
            /\ UNCHANGED exitCode
    /\ UNCHANGED <<indexOnDisk, vectorstore, pc, stages, documents, result,
                   relevant_docs, context, answer, error, searchCalls,
                   intentCalls, genCalls, intentFailed, genFailed,
                   ingestVars, args, raisedIn, answered, loopEntered>>

\* Config() and RagEngine(config): either may raise
MainConstruct ==
    /\ cliPc = "init"
    /\ \/ \E kind \in {"ValueError", "FileNotFoundError"} :
            /\ raisedIn' = raisedIn \cup {<<"config", kind>>}
            /\ Exit(1)
       \/ /\ cliPc' = IF args.ingest THEN "ingest" ELSE "load"
          /\ UNCHANGED <<raisedIn, exitCode>>
    /\ UNCHANGED <<indexOnDisk, vectorstore, pc, stages, documents, result,
                   relevant_docs, context, answer, error, searchCalls,
                   intentCalls, genCalls, intentFailed, genFailed,
                   ingestVars, args, answered, loopEntered>>

\* MainLoad with every exception of load_vectorstore ending the program
MainLoadNoFallback ==
    /\ cliPc = "load"
    /\ LoadVectorstoreCall
    /\ IF error' = ""
       THEN /\ cliPc' = "dispatch"
            /\ UNCHANGED <<raisedIn, exitCode>>
       ELSE /\ raisedIn' = raisedIn \cup {<<"load", error'>>}
            /\ Exit(1)
    /\ UNCHANGED <<ingestVars, args, answered, loopEntered>>

\* rag.load_vectorstore(): FileNotFoundError sends main to ingestion, any
\* other exception ends the program
MainLoad ==
    /\ cliPc = "load"
    /\ LoadVectorstoreCall
    /\ IF error' = ""
       THEN /\ cliPc' = "dispatch"
            /\ UNCHANGED <<raisedIn, exitCode>>
       ELSE /\ raisedIn' = raisedIn \cup {<<"load", error'>>}
            /\ IF error' = "FileNotFoundError"
               THEN /\ cliPc' = "ingest"
                    /\ UNCHANGED exitCode
               ELSE Exit(1)
    /\ UNCHANGED <<ingestVars, args, answered, loopEntered>>

\* rag.ingest_documents(), for --ingest or after a missing index; a run with
\* --ingest alone ends here
MainIngest ==
    /\ cliPc = "ingest"
    /\ IngestDocumentsCall
    /\ IF error' # ""
       THEN /\ raisedIn' = raisedIn \cup {<<"ingest", error'>>}
            /\ Exit(1)
       ELSE /\ UNCHANGED raisedIn
            /\ IF args.ingest /\ ~args.interactive /\ ~args.question
               THEN Exit(0)
               ELSE /\ cliPc' = "dispatch"
                    /\ UNCHANGED exitCode
    /\ UNCHANGED <<ingestVars, args, answered, loopEntered>>

\* the choice between the interactive mode and the single question:
\* run_interactive_mode(rag, compact=compact), or the call of rag.query
MainDispatch ==
    /\ cliPc = "dispatch"
    /\ IF args.interactive
       THEN /\ IF Binds(RunInteractiveModeParams, {"rag", "compact"})
               THEN /\ cliPc' = "loop"
                    /\ loopEntered' = TRUE
                    /\ UNCHANGED <<raisedIn, exitCode>>
               ELSE /\ raisedIn' = raisedIn \cup {<<"interactive", "TypeError">>}
                    /\ Exit(1)
                    /\ UNCHANGED loopEntered
            /\ UNCHANGED <<pc, stages, documents, result, relevant_docs,
                           context, answer, error, searchCalls, intentCalls,
                           genCalls, intentFailed, genFailed,
                           indexOnDisk, vectorstore>>
       ELSE IF args.question
       THEN /\ QueryCall
            /\ cliPc' = "query"
            /\ UNCHANGED <<raisedIn, exitCode, loopEntered>>
       ELSE /\ Exit(1)
            /\ UNCHANGED <<raisedIn, loopEntered>>
            /\ UNCHANGED <<pc, stages, documents, result, relevant_docs,
                           context, answer, error, searchCalls, intentCalls,
                           genCalls, intentFailed, genFailed,
                           indexOnDisk, vectorstore>>
    /\ UNCHANGED <<ingestVars, args, answered>>

\* the return of rag.query in process_question, and print_answer
MainAnswer ==
    /\ cliPc = "query"
    /\ pc \in {"DONE", "FAILED"}
    /\ IF pc = "FAILED"
       THEN /\ raisedIn' = raisedIn \cup {<<"query", error>>}
            /\ Exit(1)
            /\ UNCHANGED answered
       ELSE /\ answered' = TRUE
            /\ IF \E a \in answer : PrintAnswerRaises(a)
               THEN /\ raisedIn' = raisedIn \cup {<<"print", "TypeError">>}
                    /\ Exit(1)
               ELSE /\ UNCHANGED raisedIn
                    /\ Exit(0)
    /\ UNCHANGED <<indexOnDisk, vectorstore, pc, stages, documents, result,
                   relevant_docs, context, answer, error, searchCalls,
                   intentCalls, genCalls, intentFailed, genFailed,
                   ingestVars, args, loopEntered>>

NextMain ==
    \/ MainStart
    \/ MainConstruct
    \/ MainLoad
    \/ MainIngest
    \/ MainDispatch
    \/ RetrieveDocuments
    \/ ClassifyQueryIntent
    \/ FilterDocuments
    \/ EmptyAnswer
    \/ BuildContext
    \/ GenerateAnswer
    \/ MainAnswer

MainSpec == InitMain /\ [][NextMain]_vars

TypeOK ==
    /\ indexOnDisk \in BOOLEAN
    /\ vectorstore \in BOOLEAN
    /\ pc \in {"idle", "RETRIEVING", "CLASSIFYING", "FILTERING", "EMPTY_ANSWER",
               "CONTEXT_BUILDING", "GENERATING", "DONE", "FAILED"}
    /\ Cardinality(result) <= 1
    /\ Cardinality(answer) <= 1
    /\ Len(relevant_docs) <= Len(documents)
    /\ kb.path \in KbPaths
    /\ Cardinality(extracted) <= 1
    /\ Cardinality(indexDocs) <= 1
    /\ ingestPc \in {"idle", "done"}
    /\ cliPc \in {"none", "start", "init", "load", "ingest", "dispatch",
                  "query", "loop", "exited"}
    /\ exitCode \in {{}, {0}, {1}}
    /\ (cliPc = "exited") <=> (exitCode # {})

-----------------------------------------------------------------------------
(* Vocabulary of the properties *)

\* the filter of the running (or last) query has returned
FilterReturned ==
    \E i \in 1..Len(stages) : stages[i] \in {"EMPTY_ANSWER", "CONTEXT_BUILDING"}

\* the intent the filter was given
IntentIs(t) == \E r \in result : r.intent = t

\* the positions of the candidates of a kind, and the k-th of them
PositionsOf(docs, types) == {i \in 1..Len(docs) : docs[i].doc_type \in types}
NthOf(S, k) == CHOOSE i \in S : Cardinality({j \in S : j < i}) = k - 1

\* out is exactly the candidates at the positions S, in input order
IsSubListAt(out, docs, S) ==
    /\ Len(out) = Cardinality(S)
    /\ \A k \in 1..Len(out) : out[k] = docs[NthOf(S, k)]

\* (year, version) of a is lexicographically >= that of b
PairGE(a, b) == a.year > b.year \/ (a.year = b.year /\ a.version >= b.version)
SamePair(a, b) == a.year = b.year /\ a.version = b.version

\* w is the policy candidate at the first position holding the maximal pair
IsWinner(w, docs) ==
    LET P == PositionsOf(docs, {"policy"})
    IN  \E i \in P :
          /\ w = docs[i]
          /\ \A j \in P : PairGE(docs[i], docs[j])
          /\ \A j \in P : j < i => ~SamePair(docs[j], docs[i])

NumPolicies(docs) == Cardinality(PositionsOf(docs, {"policy"}))

-----------------------------------------------------------------------------
(* Claims about the filter, checked under FilterSpec *)

\* C1: whenever the latest-policy rule is applied (intent policy or general)
\* to candidates with two or more policy documents, the document it selects,
\* the head of the result, is a policy candidate whose (year, version) is
\* lexicographically >= that of every other policy candidate, and it is the
\* first candidate in input order among those holding that maximal pair.
C1_LatestPolicyWins ==
    (/\ FilterReturned
     /\ IntentIs("policy") \/ IntentIs("general")
     /\ NumPolicies(documents) >= 2)
    => (/\ relevant_docs # <<>>
        /\ IsWinner(relevant_docs[1], documents))

\* C1 witness: three policy candidates, the first older, the second and the
\* third sharing the maximal pair; the second one is selected.
C1_Witness ==
    /\ FilterReturned
    /\ IntentIs("general")
    /\ Len(documents) >= 3
    /\ \E i, j, k \in PositionsOf(documents, {"policy"}) :
          /\ i < j /\ j < k
          /\ ~PairGE(documents[i], documents[j])
          /\ SamePair(documents[j], documents[k])
          /\ \A m \in PositionsOf(documents, {"policy"}) :
                PairGE(documents[j], documents[m])
          /\ relevant_docs # <<>>
          /\ relevant_docs[1] = documents[j]

\* C2 as stated: with at most one policy candidate the filter returns the
\* candidate list unchanged under intent policy as under intent general.
C2_Original ==
    (/\ FilterReturned
     /\ IntentIs("policy") \/ IntentIs("general")
     /\ NumPolicies(documents) <= 1)
    => relevant_docs = documents

\* C2 amended: with at most one policy candidate, intent general returns the
\* candidate list unchanged, and intent policy returns the policy candidates
\* of the list unchanged (the one policy document, or nothing), dropping the
\* others: the whole list is unchanged exactly when it holds no other document.
C2_AtMostOnePolicy ==
    (/\ FilterReturned
     /\ NumPolicies(documents) <= 1)
    => (/\ IntentIs("general") => relevant_docs = documents
        /\ IntentIs("policy") =>
              /\ IsSubListAt(relevant_docs, documents,
                             PositionsOf(documents, {"policy"}))
              /\ (relevant_docs = documents)
                    <=> (PositionsOf(documents, DocType \ {"policy"}) = {}))

\* C2 witness: intent policy, one policy candidate after two other
\* candidates; the policy document alone is returned.
C2_Witness ==
    /\ FilterReturned
    /\ IntentIs("policy")
    /\ NumPolicies(documents) = 1
    /\ Len(documents) = 3
    /\ documents[3].doc_type = "policy"
    /\ relevant_docs = <<documents[3]>>

\* C3: with intent menu the result is exactly the menu candidates, all of
\* them in input order and nothing else; with intent memo exactly the memo
\* candidates; and when there is none the result is the empty list, with no
\* error raised.
C3_MenuMemoExact ==
    \A t \in {"menu", "memo"} :
        (FilterReturned /\ IntentIs(t))
        => (/\ IsSubListAt(relevant_docs, documents, PositionsOf(documents, {t}))
            /\ \A k \in 1..Len(relevant_docs) : relevant_docs[k].doc_type = t
            /\ error = ""
            /\ (PositionsOf(documents, {t}) = {}) => relevant_docs = <<>>)

\* C3 witness: intent memo over four candidates of which the second and the
\* fourth are memos; those two are returned in that order.
C3_Witness ==
    /\ FilterReturned
    /\ IntentIs("memo")
    /\ Len(documents) = 4
    /\ PositionsOf(documents, {"memo"}) = {2, 4}
    /\ documents[1].doc_type = "menu"
    /\ relevant_docs = <<documents[2], documents[4]>>

\* C4: the filter is idempotent: applied with the same intent to its own
\* output it returns that output again.
C4_Idempotent ==
    FilterReturned
    => \A r \in result :
          FilterDocumentsByMetadata(relevant_docs, r.intent) = relevant_docs

\* C4 witness: a filtering under intent general that removed a losing policy
\* document and moved the winner in front of another candidate.
C4_Witness ==
    /\ FilterReturned
    /\ IntentIs("general")
    /\ NumPolicies(documents) >= 2
    /\ Len(relevant_docs) >= 2
    /\ Len(relevant_docs) < Len(documents)
    /\ relevant_docs[1] # documents[1]

\* C5: with intent general and two or more policy candidates the result is
\* the winning policy document followed by every non-policy candidate exactly
\* once in input order; it holds no losing policy document and nothing that
\* was not a candidate.
C5_GeneralWinnerFirst ==
    (/\ FilterReturned
     /\ IntentIs("general")
     /\ NumPolicies(documents) >= 2)
    => (/\ relevant_docs # <<>>
        /\ IsWinner(relevant_docs[1], documents)
        /\ IsSubListAt(Tail(relevant_docs), documents,
                       PositionsOf(documents, DocType \ {"policy"}))
        /\ \A k \in 2..Len(relevant_docs) : relevant_docs[k].doc_type # "policy"
        /\ \A k \in 1..Len(relevant_docs) :
              \E i \in 1..Len(documents) : relevant_docs[k] = documents[i])

\* C5 witness: candidates menu, older policy, memo, newer policy; the result
\* is the newer policy, the menu, the memo.
C5_Witness ==
    /\ FilterReturned
    /\ IntentIs("general")
    /\ Len(documents) = 4
    /\ PositionsOf(documents, {"policy"}) = {2, 4}
    /\ documents[1].doc_type = "menu"
    /\ documents[3].doc_type = "memo"
    /\ documents[4].year > documents[2].year
    /\ relevant_docs = <<documents[4], documents[1], documents[3]>>

\* C6: with intent policy every returned document is a policy document, the
\* result never holds more than one policy document, and with two or more
\* policy candidates it is the winning policy document alone.
C6_PolicyIntentSingle ==
    (FilterReturned /\ IntentIs("policy"))
    => (/\ \A k \in 1..Len(relevant_docs) : relevant_docs[k].doc_type = "policy"
        /\ NumPolicies(relevant_docs) <= 1
        /\ NumPolicies(documents) >= 2 =>
              /\ Len(relevant_docs) = 1
              /\ IsWinner(relevant_docs[1], documents))

\* C6 witness: intent policy over a menu and two policy documents of the same
\* year, the later one with the higher version; it alone is returned.
C6_Witness ==
    /\ FilterReturned
    /\ IntentIs("policy")
    /\ Len(documents) = 3
    /\ documents[1].doc_type = "menu"
    /\ PositionsOf(documents, {"policy"}) = {2, 3}
    /\ documents[2].year = documents[3].year
    /\ documents[3].version > documents[2].version
    /\ relevant_docs = <<documents[3]>>

-----------------------------------------------------------------------------
(* Claims about query(), checked under Spec *)

\* the two orders in which a query can enter its stages
EmptyPath == <<"RETRIEVING", "CLASSIFYING", "FILTERING", "EMPTY_ANSWER", "DONE">>
AnswerPath == <<"RETRIEVING", "CLASSIFYING", "FILTERING", "CONTEXT_BUILDING",
                "GENERATING", "DONE">>
IsPrefix(s, t) == Len(s) <= Len(t) /\ \A i \in 1..Len(s) : s[i] = t[i]

\* C7: whenever the list left after filtering is empty, the Answer Generator
\* is not invoked in that query, the query raises no error, and what query()
\* returns is the fixed "no relevant documents" answer with an empty
\* cited_sources list.
C7_EmptyShortCircuit ==
    (FilterReturned /\ relevant_docs = <<>>)
    => (/\ genCalls = 0
        /\ ~genFailed
        /\ error = ""
        /\ pc \in {"EMPTY_ANSWER", "DONE"}
        /\ pc = "DONE" =>
              \E a \in answer :
                 /\ a.answer = "No relevant documents found to answer your question."
                 /\ a.cited_sources = {<<>>})

\* C7 witness: a finished query whose two retrieved candidates were all
\* removed by the filter.
C7_Witness ==
    /\ pc = "DONE"
    /\ FilterReturned
    /\ Len(documents) = 2
    /\ relevant_docs = <<>>
    /\ answer # {}

\* C8: when the intent call raises or its response fails validation,
\* _classify_query_intent returns {general, confidence 1, "Failed to
\* classify"}, the query raises no error for it and goes on to the filter,
\* which filters as for intent general.
C8_ClassifyFallback ==
    intentFailed
    => (/\ result = {[intent |-> "general", reasoning |-> "Failed to classify",
                      confidence |-> 1]}
        /\ pc \in {"FILTERING", "EMPTY_ANSWER", "CONTEXT_BUILDING", "GENERATING",
                   "DONE", "FAILED"}
        /\ pc = "FAILED" => (genFailed /\ error = "GenerationError")
        /\ pc # "FAILED" => error = ""
        /\ FilterReturned =>
              relevant_docs = FilterDocumentsByMetadata(documents, "general"))

\* C8 witness: a query whose classification failed and that finished with an
\* answer generated from the winner of two retrieved policy documents.
C8_Witness ==
    /\ intentFailed
    /\ pc = "DONE"
    /\ NumPolicies(documents) = 2
    /\ Len(relevant_docs) = 1
    /\ \E a \in answer : a.answer = "generated"

\* C9: when the answer call raises or its response fails validation, query()
\* fails with that error: it returns no answer, none is substituted, and the
\* Answer Generator was called exactly once in that query.
C9_GenerationFailureFatal ==
    genFailed
    => (/\ pc = "FAILED"
        /\ error = "GenerationError"
        /\ answer = {}
        /\ genCalls = 1)

\* C9 witness: a query that failed in answer generation after its filter
\* had left a document.
C9_Witness ==
    /\ genFailed
    /\ pc = "FAILED"
    /\ relevant_docs # <<>>
    /\ context # <<>>

\* C10: a query enters its stages in the order retrieval, classification,
\* filtering, then either the empty answer or context building and
\* generation, then done, each at most once; context building and generation
\* are entered only when documents remain; each stage's external call is made
\* only once its stage is entered and at most once per query.
C10_StageOrder ==
    /\ IsPrefix(stages, EmptyPath) \/ IsPrefix(stages, AnswerPath)
    /\ pc \notin {"idle", "FAILED"} => (stages # <<>> /\ pc = stages[Len(stages)])
    /\ (Len(stages) >= 4 /\ stages[4] = "CONTEXT_BUILDING") <=>
          (FilterReturned /\ relevant_docs # <<>>)
    /\ searchCalls <= 1 /\ intentCalls <= 1 /\ genCalls <= 1
    /\ Len(stages) >= 2 => searchCalls = 1
    /\ intentCalls = (IF Len(stages) >= 3 THEN 1 ELSE 0)
    /\ genCalls = 1 => (Len(stages) >= 5 /\ stages[5] = "GENERATING")
    /\ pc = "DONE" => (stages = EmptyPath \/ (stages = AnswerPath /\ genCalls = 1))

\* C10 witness: a query that went through every stage to an answer, with
\* each external service called once.
C10_Witness ==
    /\ pc = "DONE"
    /\ stages = AnswerPath
    /\ searchCalls = 1
    /\ intentCalls = 1
    /\ genCalls = 1

-----------------------------------------------------------------------------
(* Claims about metadata extraction, checked under ExtractSpec *)

\* the file DocumentMetadata was given, and the metadata it gave
TheFile == kb.files[1]
Metadatas == {d.metadata : d \in UNION {e.document : e \in extracted}}

\* dt is the calendar day y-m-d
IsDay(dt, y, m, d) == dt.year = y /\ dt.month = m /\ dt.day = d

\* the filename ends in "_<four digits>.txt"
EndsInYear(filename) ==
    Len(filename) >= 2 /\ filename[Len(filename)].kind = "digits4"

\* C11: every metadata record that extraction produces has a year equal to
\* the year of its effective date, a version that is not negative, and a
\* document type among policy, menu, memo and general.
C11_MetadataInvariants ==
    \A m \in Metadatas :
        /\ FromIsoFormat(m.effective_date) # {}
        /\ \A dt \in FromIsoFormat(m.effective_date) : m.year = dt.year
        /\ m.version >= 0
        /\ m.doc_type \in {"policy", "menu", "memo", "general"}

\* extraction succeeded on a file with a version tag and a year in its name
C11_Witness ==
    \E m \in Metadatas : m.version = 3 /\ m.year = 2022 /\ m.doc_type = "policy"

\* C12: the date comes from the first source that succeeds, in the order
\* filename year (January 1 of that year, whatever the content says), the
\* "Effective Date: <Month DD, YYYY>" line, the "Effective Date:
\* <YYYY-MM-DD>" line, the modification time of the file; and
\* handbook_v3_2022.txt gives version 3, year 2022, date 2022-01-01.
C12_DateSourceOrder ==
    extracted # {} =>
        /\ Metadatas # {}
        /\ \A m \in Metadatas : \A dt \in FromIsoFormat(m.effective_date) :
             LET filename == TheFile.filename
                 byMonth == UNION {StrptimeMonth(t) : t \in TheFile.content.month}
                 byIso == UNION {StrptimeIso(t) : t \in TheFile.content.iso}
             IN  /\ IF EndsInYear(filename)
                    THEN IsDay(dt, filename[Len(filename)].num, 1, 1)
                    ELSE IF byMonth # {}
                    THEN \A x \in byMonth : IsDay(dt, x.year, x.month, x.day)
                    ELSE IF byIso # {}
                    THEN \A x \in byIso : IsDay(dt, x.year, x.month, x.day)
                    ELSE dt = TheFile.mtime
                 /\ filename = <<Word("handbook"), VersionTag(3), Digits4(2022)>>
                      => m.version = 3 /\ m.year = 2022 /\ IsDay(dt, 2022, 1, 1)

-----------------------------------------------------------------------------
(* Claims about ingestion, checked under IngestSpec *)

Ingested == ingestPc = "done"

\* reading the i-th file and extracting its metadata both succeed
Processable(i) ==
    kb.files[i].readable /\ ExtractDocument(kb, kb.files[i]).raised = ""

\* the index holds exactly the documents of the files at the positions S, in
\* the order of the files
IndexHoldsFilesAt(S) ==
    \E docs \in indexDocs :
        /\ Len(docs) = Cardinality(S)
        /\ \A k \in 1..Len(docs) :
             /\ docs[k].metadata.source = kb.files[NthOf(S, k)].filename
             /\ docs[k].page_content = kb.files[NthOf(S, k)].content

\* the file carries no year in its name and no date line that parses
Undated(file) ==
    /\ ~EndsInYear(file.filename)
    /\ \A t \in file.content.month : StrptimeMonth(t) = {}
    /\ \A t \in file.content.iso : StrptimeIso(t) = {}

\* C15: a file whose reading or extraction fails is skipped and the other
\* files are still processed and indexed; with the directory present and at
\* least one file in it, ingestion fails for the corpus only when no file at
\* all was processed.
C15_SkipAndContinue ==
    (Ingested /\ kb.exists /\ kb.files # <<>>) =>
        LET good == {i \in 1..Len(kb.files) : Processable(i)}
        IN  /\ error \in {"", "ValueError", "StoreError"}
            /\ (error = "ValueError") <=> (good = {})
            /\ error = "" => IndexHoldsFilesAt(good)

\* an ingestion that indexed a file listed after one that failed
C15_Witness ==
    /\ Ingested
    /\ error = ""
    /\ \E i, j \in 1..Len(kb.files) : i < j /\ ~Processable(i) /\ Processable(j)
    /\ \E docs \in indexDocs : Len(docs) = 1

\* C17: every step leaves the index location holding the complete previous
\* index or the complete new one, a failed ingestion included.
C17_AtomicReplace ==
    [][indexDocs' # indexDocs => (error' = "" /\ indexDocs' # {})]_vars

\* C20: a readable file with no year in its name and no date line that
\* parses is ingested with the modification time of the file as effective
\* date, under every configured knowledge base path.
C20_MtimeFallback ==
    (Ingested /\ kb.exists /\ error # "StoreError") =>
        \A i \in 1..Len(kb.files) :
            (kb.files[i].readable /\ Undated(kb.files[i])) =>
                \E docs \in indexDocs : \E k \in 1..Len(docs) :
                    /\ docs[k].metadata.source = kb.files[i].filename
                    /\ docs[k].metadata.effective_date
                         = IsoFormat(kb.files[i].mtime)

-----------------------------------------------------------------------------
(* Claims about the command line program, checked under MainSpec *)

Exited == cliPc = "exited"
HasAction == args.ingest \/ args.interactive \/ args.question
IngestOnly == args.ingest /\ ~args.interactive /\ ~args.question
Raised(call) == \E r \in raisedIn : r[1] = call
MissingIndex == <<"load", "FileNotFoundError">>

\* C13: started with the interactive flag and with the index loaded or
\* ingested, the program enters the question loop.
C13_InteractiveLoop ==
    (Exited /\ args.interactive /\ vectorstore) => loopEntered

\* C14, as stated: exit code 0 when an ingest-only run succeeds and when a
\* single question is answered; 1 when nothing is asked for and whenever
\* configuration loading, index loading, ingestion or the query raises.
C14_Original ==
    Exited =>
        /\ (IngestOnly /\ raisedIn = {}) => exitCode = {0}
        /\ answered => exitCode = {0}
        /\ ~HasAction => exitCode = {1}
        /\ (Raised("config") \/ Raised("load") \/ Raised("ingest")
            \/ Raised("query")) => exitCode = {1}

\* C14, amended: exit code 1 exactly when nothing is asked for or a call
\* raises, a FileNotFoundError of index loading excepted, which sends main to
\* ingestion; the calls that raise include the printing of an answer without
\* cited sources and the call of the interactive mode; exit code 0 otherwise,
\* which is after an ingest-only run or after an answer was printed.
C14_ExitCodes ==
    Exited =>
        /\ exitCode \in {{0}, {1}}
        /\ exitCode = {1} <=>
              (~HasAction \/ \E r \in raisedIn : r # MissingIndex)
        /\ exitCode = {0} => (IngestOnly \/ (answered /\ ~Raised("print")))
        /\ Raised("print") <=>
              (answered /\ \E a \in answer : a.cited_sources = {})
        /\ args.interactive => exitCode = {1}
        /\ MissingIndex \in raisedIn =>
              (vectorstore \/ Raised("ingest"))

\* a question answered with exit code 0 after the index was found missing
C14_Witness ==
    /\ Exited
    /\ exitCode = {0}
    /\ MissingIndex \in raisedIn
    /\ answered

-----------------------------------------------------------------------------
(* Further claims about the filter, checked under FilterSpec *)

\* the longest candidate list whose permutations are all tried
MaxPermDocs == 3

SetOf(seq) == {seq[i] : i \in 1..Len(seq)}
Permuted(docs, p) == [i \in 1..Len(docs) |-> docs[p[i]]]
PoliciesOf(docs) == {d \in SetOf(docs) : d.doc_type = "policy"}

\* at most one policy candidate holds the maximal (year, version)
UniqueLatest(docs) ==
    LET P == PositionsOf(docs, {"policy"})
        top == {i \in P : \A j \in P : PairGE(docs[i], docs[j])}
    IN  Cardinality(top) <= 1

\* C16, as stated: the filter returns the same set of documents for every
\* permutation of the candidates.
C16_Original ==
    (FilterReturned /\ Len(documents) <= MaxPermDocs) =>
        \A r \in result : \A p \in Permutations(1..Len(documents)) :
            SetOf(FilterDocumentsByMetadata(Permuted(documents, p), r.intent))
              = SetOf(relevant_docs)

\* C16, amended: for every permutation of the candidates the filter returns
\* the same documents that are not policies and as many policies with the
\* same (year, version), and the same set of documents altogether when no
\* two policy candidates share the maximal (year, version).
C16_PermutationUpToTies ==
    (FilterReturned /\ Len(documents) <= MaxPermDocs) =>
        \A r \in result : \A p \in Permutations(1..Len(documents)) :
            LET other == FilterDocumentsByMetadata(Permuted(documents, p),
                                                   r.intent)
            IN  /\ SetOf(other) \ PoliciesOf(other)
                     = SetOf(relevant_docs) \ PoliciesOf(relevant_docs)
                /\ Cardinality(PoliciesOf(other))
                     = Cardinality(PoliciesOf(relevant_docs))
                /\ \A a \in PoliciesOf(other) :
                     \A b \in PoliciesOf(relevant_docs) : SamePair(a, b)
                /\ UniqueLatest(documents)
                     => SetOf(other) = SetOf(relevant_docs)

\* the filter returned on candidates with two policies tied at the maximum
C16_Witness ==
    /\ FilterReturned
    /\ Len(documents) = MaxPermDocs
    /\ ~UniqueLatest(documents)
    /\ IntentIs("general")
    /\ Len(relevant_docs) = 2

-----------------------------------------------------------------------------
(* Further claims about query(), checked under Spec *)

\* C18: the list retrieve_relevant_context returns never holds more than
\* RETRIEVAL_TOP_K documents.
C18_PrunedToTopK ==
    FilterReturned => Len(relevant_docs) <= RETRIEVAL_TOP_K

PastRetrieval == pc \notin {"idle", "RETRIEVING"}

\* C21: a query whose retrieval fails, for want of a loaded store or because
\* the search raises, fails with that error, returns no answer, and calls
\* neither the intent classifier nor the answer generator.
C21_RetrievalFailureFatal ==
    /\ (PastRetrieval /\ ~vectorstore) =>
           (pc = "FAILED" /\ error = "ValueError" /\ searchCalls = 0)
    /\ (pc = "FAILED" /\ error \in {"ValueError", "RetrievalError"}) =>
           /\ stages = <<"RETRIEVING">>
           /\ intentCalls = 0
           /\ genCalls = 0
           /\ answer = {}
           /\ result = {}

\* a query failed because no store was loaded
C21_Witness ==
    /\ pc = "FAILED"
    /\ error = "ValueError"
    /\ ~vectorstore
    /\ stages = <<"RETRIEVING">>

-----------------------------------------------------------------------------
(* Further claims about the command line program, checked under MainSpec *)

\* C22: every answer query() returns carries a list of cited sources, never
\* None, so printing the sources of a returned answer does not raise.
C22_CitedSourcesNeverNull ==
    /\ pc = "DONE" => \A a \in answer : a.cited_sources # {}
    /\ answered => ~Raised("print")

=============================================================================
